---------------------------- MODULE Spec2Model ----------------------------
(* Model of src/Profiler.py: the Event and Profiler classes, the psycopg2 *)
(* connection the Profiler owns, and the handlers append, flush and       *)
(* __exit__.  Each handler is one action; the store's transaction is      *)
(* modelled as psycopg2 runs it (no autocommit: statements are pending    *)
(* until commit, a failed statement aborts the transaction).              *)
EXTENDS Integers, Sequences, FiniteSets, TLC

-----------------------------------------------------------------------------
(* Bounds of the model *)

\* Events ever constructed (by the caller or by flush) in one run
MaxIds == 5
\* Largest advance of the monotonic clock since construction
MaxClock == 3
\* Advances of the monotonic clock between two readings
Steps == {0, 1}
\* Wall clock and monotonic clock readings taken at construction
Createds == {3}
Offsets == {1}
\* The calendar of the wall clock, in ticks
TicksPerDay == 2
DaysPerMonth == 2
MonthsPerYear == 2

-----------------------------------------------------------------------------
(* Values *)

\* Python's None in a numeric field (Event.end, Event.records)
None == -1
\* Python's None in a text field (Event.comment)
NoneC == "None"
\* a records value psycopg2 has no adapter for: execute raises before
\* anything is sent to the server
Unadaptable == -2
\* the state flush gives its synthetic Event
Housekeeping == "Profiler Housekeeping"

\* what a caller passes to append
CallerInputs ==
    { [state |-> "Run #0", comment |-> "c0",  records |-> 100],
      [state |-> "Run #1", comment |-> NoneC, records |-> None],
      [state |-> "Run #1", comment |-> "c1",  records |-> Unadaptable] }

\* how a store call may fail: not at all, with an error of the server
\* (the transaction is aborted), or with the loss of the connection
FaultKinds == {"server", "conn"}

\* store calls a handler makes at most on a buffer of n Events: flush
\* (cursor, one execute per Event, commit) and the rest of __exit__
\* (cursor, execute, commit, close)
MaxCalls(n) == n + 6

\* call = 0: no call fails; call = k: the k-th store call of the handler fails
Faults(n) ==
    {[call |-> 0, kind |-> "server"]} \cup [call : 1..MaxCalls(n), kind : FaultKinds]

VARIABLES
    events,     \* Profiler.events: the buffer
    pid,        \* Profiler.pid
    created,    \* Profiler.created, a wall clock instant in ticks
    offset,     \* Profiler.offset, a monotonic clock reading
    clock,      \* the last reading of time.perf_counter()
    db,         \* Profiler.db and the tables behind it
    phase,      \* "no_profiler" (the constructor raised), "active", "closed"
                \* (exit returned), "exit_failed" (exit raised)
    nextId,     \* identity of the next Event object constructed
    callerIds,  \* identities of the Events the caller's append calls made
    last        \* history: the last handler run, what it started from, how it ended

vars == <<events, pid, created, offset, clock, db, phase, nextId, callerIds, last>>

-----------------------------------------------------------------------------
(* class Event *)

\* Event.__init__ at monotonic time t; id is the object's identity
Event(id, state, comment, records, t) ==
    [id |-> id, state |-> state, comment |-> comment, records |-> records,
     start |-> t, end |-> None]

set_end(e, counter) == [e EXCEPT !.end = counter]

-----------------------------------------------------------------------------
(* Profiler.append *)

\* the Event whose end append sets once the buffer holds more than one:
\* self.events[-1], the Event just appended
AppendTarget(evs) == Len(evs)

\* the new Event is put at the front of the buffer
appendFront(evs, e) ==
    LET a == <<e>> \o evs
        k == AppendTarget(a)
    IN  IF Len(a) > 1
        THEN [a EXCEPT ![k] = set_end(a[k], a[Len(a)].start)]
        ELSE a

append(evs, e) ==
    LET a == Append(evs, e)
        k == AppendTarget(a)
    IN  IF Len(a) > 1
        THEN [a EXCEPT ![k] = set_end(a[k], a[Len(a)].start)]
        ELSE a

-----------------------------------------------------------------------------
(* The store: psycopg2 connection, its transaction, the tables *)

\* the store before the Profiler is constructed
NewDb ==
    [conn     |-> "unopened", \* "unopened", "open", "closed", "broken"
     profile  |-> FALSE,      \* the row of profiler.profiles exists, committed
     tx       |-> "idle",     \* "idle", "open", "aborted"
     pending  |-> <<>>,       \* rows inserted in the open transaction
     pendingEnded |-> FALSE,  \* the UPDATE of the profile row, not yet committed
     rows     |-> <<>>,       \* profiler.events, committed
     ended    |-> FALSE,      \* profiler.profiles.ended is set, committed
     calls    |-> 0,          \* store calls made by the handler running
     log      |-> <<>>]       \* the steps of the handler running, in order

-----------------------------------------------------------------------------
(* Monotonic time to wall clock text, lines 97-98 *)

\* self.created + datetime.timedelta(seconds = t - self.offset)
WallClock(c, o, t) == c + (t - o)

\* strftime('%Y-%d-%m %H:%M:%S.%f'): year, then day, then month, then time of day
strftime(w) ==
    LET tick  == w % TicksPerDay
        days  == w \div TicksPerDay
        day   == (days % DaysPerMonth) + 1
        mons  == days \div DaysPerMonth
        month == (mons % MonthsPerYear) + 1
        year  == mons \div MonthsPerYear
    IN  <<year, day, month, tick>>

\* the parameters of the INSERT of line 99; id is the identity of the Event
\* the row was made from
EventRow(p, c, o, e) ==
    [id |-> e.id, profile_id |-> p, state |-> e.state,
     started |-> strftime(WallClock(c, o, e.start)),
     ended   |-> strftime(WallClock(c, o, e.end)),
     records |-> e.records, comment |-> e.comment]

-----------------------------------------------------------------------------
(* Store calls.  Each gives [db, ok]: the store afterwards, and whether the *)
(* call returned (TRUE) or raised (FALSE).                                  *)

\* the handler running takes the step named what
Note(d, what) == [d EXCEPT !.log = Append(@, what)]

Hit(d, fault, kind) == fault.call = d.calls + 1 /\ fault.kind = kind

Raise(d) == [db |-> [d EXCEPT !.calls = @ + 1], ok |-> FALSE]

\* the server aborts the transaction: what was pending is gone, and every
\* statement raises until a rollback
Abort(d) ==
    [db |-> [d EXCEPT !.calls = @ + 1, !.tx = "aborted", !.pending = <<>>,
                      !.pendingEnded = FALSE],
     ok |-> FALSE]

\* the connection is lost: the server rolls the transaction back
Lose(d) ==
    [db |-> [d EXCEPT !.calls = @ + 1, !.conn = "broken", !.tx = "idle",
                      !.pending = <<>>, !.pendingEnded = FALSE],
     ok |-> FALSE]

\* self.db.cursor()
Cursor(d0) ==
    LET d == Note(d0, "cursor")
    IN  IF d.conn = "open"
        THEN [db |-> [d EXCEPT !.calls = @ + 1], ok |-> TRUE]
        ELSE Raise(d)

\* a connection in autocommit mode: the row is committed by the execute
ExecuteAutocommit(d0, row, fault) ==
    LET d == Note(d0, "insert") IN
    IF d.conn # "open" \/ row.records = Unadaptable THEN Raise(d)
    ELSE IF Hit(d, fault, "server") THEN Raise(d)
    ELSE IF Hit(d, fault, "conn") THEN Lose(d)
    ELSE [db |-> [d EXCEPT !.calls = @ + 1, !.rows = Append(@, row)], ok |-> TRUE]

\* cursor.execute(sql, [...]) of the INSERT
Execute(d0, row, fault) ==
    LET d == Note(d0, "insert") IN
    IF d.conn # "open" THEN Raise(d)
    ELSE IF row.records = Unadaptable THEN Raise(d)
    ELSE IF d.tx = "aborted" THEN Raise(d)
    ELSE IF Hit(d, fault, "server") THEN Abort(d)
    ELSE IF Hit(d, fault, "conn") THEN Lose(d)
    ELSE [db |-> [d EXCEPT !.calls = @ + 1, !.tx = "open",
                           !.pending = Append(@, row)],
          ok |-> TRUE]

\* cursor.execute(sql, [self.pid]) of the UPDATE of the profile row
ExecuteEnded(d0, fault) ==
    LET d == Note(d0, "update") IN
    IF d.conn # "open" THEN Raise(d)
    ELSE IF d.tx = "aborted" THEN Raise(d)
    ELSE IF Hit(d, fault, "server") THEN Abort(d)
    ELSE IF Hit(d, fault, "conn") THEN Lose(d)
    ELSE [db |-> [d EXCEPT !.calls = @ + 1, !.tx = "open", !.pendingEnded = TRUE],
          ok |-> TRUE]

\* self.db.commit(); a COMMIT in an aborted transaction rolls back and
\* raises nothing
Commit(d0, fault) ==
    LET d == Note(d0, "commit") IN
    IF d.conn # "open" THEN Raise(d)
    ELSE IF d.tx = "aborted"
    THEN [db |-> [d EXCEPT !.calls = @ + 1, !.tx = "idle", !.pending = <<>>,
                           !.pendingEnded = FALSE],
          ok |-> TRUE]
    ELSE IF Hit(d, fault, "server")
    THEN [db |-> [d EXCEPT !.calls = @ + 1, !.tx = "idle", !.pending = <<>>,
                           !.pendingEnded = FALSE],
          ok |-> FALSE]
    ELSE IF Hit(d, fault, "conn") THEN Lose(d)
    ELSE [db |-> [d EXCEPT !.calls = @ + 1, !.tx = "idle",
                           !.rows = @ \o d.pending, !.pending = <<>>,
                           !.ended = @ \/ d.pendingEnded, !.pendingEnded = FALSE],
          ok |-> TRUE]

\* self.db.close(): an open transaction is rolled back
Close(d0) ==
    LET d == Note(d0, "close") IN
    [d EXCEPT !.calls = @ + 1, !.conn = "closed", !.tx = "idle",
              !.pending = <<>>, !.pendingEnded = FALSE]

-----------------------------------------------------------------------------
(* Profiler.__init__ *)

\* lines 56-66: psycopg2.connect returns a connection when the store can be
\* reached (up) and raises when it cannot
connect_to_db(d, up) ==
    IF up THEN [db |-> [d EXCEPT !.conn = "open"], ok |-> TRUE]
    ELSE [db |-> d, ok |-> FALSE]

\* cursor.execute(sql, [name, comment]) of the INSERT of the profile row
ExecuteProfile(d0, fault) ==
    LET d == Note(d0, "profile") IN
    IF d.conn # "open" THEN Raise(d)
    ELSE IF Hit(d, fault, "server") THEN Abort(d)
    ELSE IF Hit(d, fault, "conn") THEN Lose(d)
    ELSE [db |-> [d EXCEPT !.calls = @ + 1, !.tx = "open"], ok |-> TRUE]

\* lines 68-81: the profile row exists once its INSERT is committed
create_new_profile(d, fault) ==
    LET cur == Cursor(d)
        ins == ExecuteProfile(cur.db, fault)
        com == Commit(ins.db, fault)
    IN  IF ~cur.ok THEN [db |-> cur.db, ok |-> FALSE, id |-> None]
        ELSE IF ~ins.ok THEN [db |-> ins.db, ok |-> FALSE, id |-> None]
        ELSE IF ~com.ok THEN [db |-> com.db, ok |-> FALSE, id |-> None]
        ELSE [db |-> [com.db EXCEPT !.profile = TRUE], ok |-> TRUE, id |-> 1]

\* a constructor that swallows the error of the connection and returns a
\* Profiler without a store
initSwallow(up, fault) ==
    LET con == connect_to_db(NewDb, up)
        new == create_new_profile(con.db, fault)
    IN  IF ~con.ok THEN [db |-> con.db, ok |-> TRUE, pid |-> None]
        ELSE [db |-> new.db, ok |-> new.ok, pid |-> new.id]

\* lines 33-41: [db, ok, pid]; ok is FALSE when __init__ raises and no
\* Profiler is returned
init(up, fault) ==
    LET con == connect_to_db(NewDb, up)
        new == create_new_profile(con.db, fault)
    IN  IF ~con.ok THEN [db |-> con.db, ok |-> FALSE, pid |-> None]
        ELSE [db |-> new.db, ok |-> new.ok, pid |-> new.id]

\* the state once the constructor has returned or raised
Init ==
    /\ \E up \in BOOLEAN, fault \in Faults(0) :
         LET r == init(up, fault)
         IN  /\ db = r.db
             /\ pid = r.pid
             /\ phase = IF r.ok THEN "active" ELSE "no_profiler"
    /\ events = <<>>
    /\ created \in Createds
    /\ offset \in Offsets
    /\ clock = offset
    /\ nextId = 1
    /\ callerIds = {}
    /\ last = [op |-> "init", ok |-> (phase = "active"), pre |-> <<>>, preRows |-> 0,
               prePending |-> 0, preClock |-> offset, calls |-> db.calls,
               afterFlush |-> FALSE, flushed |-> FALSE, failed |-> FALSE,
               retry |-> {}, strays |-> {}, given |-> 0]

-----------------------------------------------------------------------------
(* Profiler.flush *)

\* a handler's result: the buffer and the store afterwards, whether it
\* returned (TRUE) or raised (FALSE), the Events it constructed, and the
\* clock readings it took
Result(evs, d, ok, made, reads) ==
    [events |-> evs, db |-> d, ok |-> ok, made |-> made, reads |-> reads]

\* line 88: if self.events
FlushGuard(evs) == evs # <<>>

\* a flush that commits whether or not it has anything to write
FlushSkipCommits(evs, d) ==
    Result(evs, Commit(d, [call |-> 0, kind |-> "server"]).db, TRUE, 0, 0)

\* line 88, the buffer is empty: nothing is done
FlushSkip(evs, d) == Result(evs, d, TRUE, 0, 0)

\* the loop leaves out the last two Events
LoopEndShort(evs) == Len(evs) - 2

\* line 95: range(len(self.events)-1), the last index of the loop (from 1)
LoopEnd(evs) == Len(evs) - 1

\* the loop keeps an end that is already set
FlushEndKeep(evs, i) == IF evs[i].end # None THEN evs[i].end ELSE evs[i+1].start

\* line 96: the end the loop gives to Event i
FlushEnd(evs, i) == evs[i+1].start

\* the slice keeps the last two Events
TruncateKeepTwo(evs) == SubSeq(evs, Len(evs) - 1, Len(evs))

\* the buffer is cleared
TruncateClear(evs) == <<>>

\* line 101: self.events[-1:]
Truncate(evs) == SubSeq(evs, Len(evs), Len(evs))

\* the resumed Event forgets the records
ResumeNoRecords(prev, id, t) == Event(id, prev.state, prev.comment, None, t)

\* lines 89-91 and 104: the Event that resumes the saved state
Resume(prev, id, t) == Event(id, prev.state, prev.comment, prev.records, t)

\* lines 95-99, from index i on: [events, db, ok]
RECURSIVE FlushLoop(_, _, _, _, _, _, _)
FlushLoop(evs, d, i, fault, p, c, o) ==
    IF i > LoopEnd(evs) THEN [events |-> evs, db |-> d, ok |-> TRUE]
    ELSE LET e1 == [evs EXCEPT ![i] = set_end(evs[i], FlushEnd(evs, i))]
             x  == Execute(d, EventRow(p, c, o, e1[i]), fault)
         IN  IF x.ok THEN FlushLoop(e1, x.db, i + 1, fault, p, c, o)
             ELSE [events |-> e1, db |-> x.db, ok |-> FALSE]

\* the saved state is resumed (line 104) before the commit (line 102)
FlushBodyResumeEarly(evs, d, fault, p, c, o, id, t1, t2) ==
    LET prev == evs[Len(evs)]
        ev1  == append(evs, Event(id, Housekeeping, NoneC, None, t1))
        cur  == Cursor(Note(d, "housekeeping"))
        loop == FlushLoop(ev1, cur.db, 1, fault, p, c, o)
        ev2  == append(Truncate(loop.events), Resume(prev, id + 1, t2))
        com  == Commit(Note(loop.db, "resume"), fault)
    IN  IF ~cur.ok THEN Result(ev1, cur.db, FALSE, 1, 1)
        ELSE IF ~loop.ok THEN Result(loop.events, loop.db, FALSE, 1, 1)
        ELSE Result(ev2, com.db, com.ok, 2, 2)

\* lines 89-104: the buffer is not empty.  id is the identity of the next
\* Event constructed, t1 and t2 the clock readings of the two appends; the
\* log notes the two appends among the store calls
FlushBody(evs, d, fault, p, c, o, id, t1, t2) ==
    LET prev == evs[Len(evs)]
        ev1  == append(evs, Event(id, Housekeeping, NoneC, None, t1))
        cur  == Cursor(Note(d, "housekeeping"))
        loop == FlushLoop(ev1, cur.db, 1, fault, p, c, o)
        ev2  == Truncate(loop.events)
        com  == Commit(loop.db, fault)
    IN  IF ~cur.ok THEN Result(ev1, cur.db, FALSE, 1, 1)
        ELSE IF ~loop.ok THEN Result(loop.events, loop.db, FALSE, 1, 1)
        ELSE IF ~com.ok THEN Result(ev2, com.db, FALSE, 1, 1)
        ELSE Result(append(ev2, Resume(prev, id + 1, t2)), Note(com.db, "resume"),
                    TRUE, 2, 2)

flush(evs, d, fault, p, c, o, id, t1, t2) ==
    IF FlushGuard(evs) THEN FlushBody(evs, d, fault, p, c, o, id, t1, t2)
    ELSE FlushSkip(evs, d)

-----------------------------------------------------------------------------
(* Profiler.__exit__ *)

\* the profile row is marked ended before the final flush
exitEndedFirst(evs, d, fault, p, c, o, id, t1, t2) ==
    LET cur == Cursor(d)
        upd == ExecuteEnded(cur.db, fault)
        com == Commit(upd.db, fault)
        f   == flush(evs, com.db, fault, p, c, o, id, t1, t2)
    IN  IF ~cur.ok THEN Result(evs, cur.db, FALSE, 0, 0)
        ELSE IF ~upd.ok THEN Result(evs, upd.db, FALSE, 0, 0)
        ELSE IF ~com.ok THEN Result(evs, com.db, FALSE, 0, 0)
        ELSE IF ~f.ok THEN f
        ELSE [f EXCEPT !.db = Close(f.db)]

exit(evs, d, fault, p, c, o, id, t1, t2) ==
    LET f   == flush(evs, d, fault, p, c, o, id, t1, t2)
        cur == Cursor(f.db)
        upd == ExecuteEnded(cur.db, fault)
        com == Commit(upd.db, fault)
    IN  IF ~f.ok THEN f
        ELSE IF ~cur.ok THEN [f EXCEPT !.db = cur.db, !.ok = FALSE]
        ELSE IF ~upd.ok THEN [f EXCEPT !.db = upd.db, !.ok = FALSE]
        ELSE IF ~com.ok THEN [f EXCEPT !.db = com.db, !.ok = FALSE]
        ELSE [f EXCEPT !.db = Close(com.db)]

-----------------------------------------------------------------------------
(* Actions *)

\* a records value as a number of records: None and a value that is no
\* number count for nothing
Count(records) == IF records \in {None, Unadaptable} THEN 0 ELSE records

\* the clock after a handler that took r.reads readings, the last at t1 or t2
ClockAfter(r, t1, t2) == IF r.reads = 0 THEN clock ELSE IF r.reads = 1 THEN t1 ELSE t2

\* op: the handler; ok: it returned, not raised; pre, preRows, prePending,
\* preClock: the buffer, the numbers of committed and of pending rows and the
\* clock when it was called; calls: the store calls it made; afterFlush: the
\* handler before it was a flush that returned, on a buffer that was not
\* empty; flushed: flush or __exit__ has been called; failed: a handler raised;
\* retry: the caller's Events appended before a flush that raised; strays: the
\* housekeeping Events constructed by flushes that raised; given: the sum of
\* the records the caller passed to append
History(op, r) ==
    [op |-> op, ok |-> r.ok, pre |-> events, preRows |-> Len(db.rows),
     prePending |-> Len(db.pending), preClock |-> clock, calls |-> r.db.calls,
     afterFlush |-> (last.op = "flush" /\ last.ok /\ last.pre # <<>>),
     flushed |-> TRUE, failed |-> last.failed \/ ~r.ok,
     retry |-> IF op = "flush" /\ ~r.ok THEN callerIds ELSE last.retry,
     strays |-> IF op = "flush" /\ ~r.ok THEN last.strays \cup {nextId} ELSE last.strays,
     given |-> last.given]

FlushOp ==
    /\ phase = "active"
    /\ nextId + 1 <= MaxIds
    /\ \E fault \in Faults(Len(events)), d1 \in Steps, d2 \in Steps :
        LET t1 == clock + d1
            t2 == t1 + d2
            r  == flush(events, [db EXCEPT !.calls = 0, !.log = <<>>], fault, pid, created, offset,
                        nextId, t1, t2)
        IN  /\ t2 <= offset + MaxClock
            /\ events' = r.events
            /\ db' = r.db
            /\ nextId' = nextId + r.made
            /\ clock' = ClockAfter(r, t1, t2)
            /\ last' = History("flush", r)
    /\ UNCHANGED <<pid, created, offset, phase, callerIds>>

ExitOp ==
    /\ phase = "active"
    /\ nextId + 1 <= MaxIds
    /\ \E fault \in Faults(Len(events)), d1 \in Steps, d2 \in Steps :
        LET t1 == clock + d1
            t2 == t1 + d2
            r  == exit(events, [db EXCEPT !.calls = 0, !.log = <<>>], fault, pid, created, offset,
                       nextId, t1, t2)
        IN  /\ t2 <= offset + MaxClock
            /\ events' = r.events
            /\ db' = r.db
            /\ nextId' = nextId + r.made
            /\ clock' = ClockAfter(r, t1, t2)
            /\ phase' = IF r.ok THEN "closed" ELSE "exit_failed"
            /\ last' = History("exit", r)
    /\ UNCHANGED <<pid, created, offset, callerIds>>

AppendOp ==
    /\ phase = "active"
    /\ nextId <= MaxIds
    /\ \E in \in CallerInputs, d \in Steps :
        /\ clock + d <= offset + MaxClock
        /\ clock' = clock + d
        /\ events' = append(events, Event(nextId, in.state, in.comment, in.records, clock + d))
        /\ nextId' = nextId + 1
        /\ callerIds' = callerIds \cup {nextId}
        /\ last' = [last EXCEPT !.op = "append", !.ok = TRUE, !.pre = events,
                                !.preRows = Len(db.rows), !.prePending = Len(db.pending),
                                !.preClock = clock, !.calls = 0, !.afterFlush = FALSE,
                                !.given = @ + Count(in.records)]
    /\ UNCHANGED <<pid, created, offset, db, phase>>

Next == AppendOp \/ FlushOp \/ ExitOp

Spec == Init /\ [][Next]_vars


-----------------------------------------------------------------------------
(* Properties *)

\* the last handler was a flush that returned, called on a buffer that was
\* not empty
FlushedOk == last.op = "flush" /\ last.ok /\ last.pre # <<>>

\* the rows the last handler committed
NewRows == SubSeq(db.rows, last.preRows + 1, Len(db.rows))

\* the rows of the store made from the Event of identity id
RowsOf(id) == {k \in 1..Len(db.rows) : db.rows[k].id = id}

\* C1: after any sequence of append calls with no flush in between, every
\* Event of the buffer but the last has its end set, and the end of each
\* equals the start of the next.
C1_AppendContiguity ==
    ~last.flushed =>
        \A i \in 1..(Len(events) - 1) :
            events[i].end # None /\ events[i].end = events[i+1].start

\* C2 as stated: after a flush that returned, on a buffer that was not
\* empty, the buffer holds exactly one Event, with the state, comment and
\* records of the Event that was last when flush was called.
C2_OneEventAfterFlush ==
    FlushedOk =>
        /\ Len(events) = 1
        /\ events[1].state = last.pre[Len(last.pre)].state
        /\ events[1].comment = last.pre[Len(last.pre)].comment
        /\ events[1].records = last.pre[Len(last.pre)].records

\* C2 as amended: after a flush that returned, on a buffer that was not
\* empty, the buffer holds exactly two Events: the housekeeping Event that
\* flush appended, then a new Event with the state, comment and records of
\* the Event that was last when flush was called.
C2_TwoEventsAfterFlush ==
    FlushedOk =>
        /\ Len(events) = 2
        /\ events[1].state = Housekeeping
        /\ \A i \in 1..Len(last.pre) : last.pre[i].id \notin {events[1].id, events[2].id}
        /\ events[2].state = last.pre[Len(last.pre)].state
        /\ events[2].comment = last.pre[Len(last.pre)].comment
        /\ events[2].records = last.pre[Len(last.pre)].records

C2_Witness ==
    /\ FlushedOk
    /\ Len(last.pre) = 2
    /\ last.pre[2].records = 100
    /\ last.pre[1].state # last.pre[2].state

\* C3 as stated: a flush that returned, on a buffer of N >= 1 Events, commits
\* exactly N new rows, and the row of the housekeeping Event that this flush
\* created is one of them.
C3_RowsIncludeHousekeeping ==
    FlushedOk =>
        /\ Len(NewRows) = Len(last.pre)
        /\ \E k \in 1..Len(NewRows) :
              NewRows[k].id = events[1].id /\ NewRows[k].state = Housekeeping

\* C3 as amended: a flush that returned, on a buffer of N >= 1 Events, commits
\* exactly N new rows, one for each of the N Events; the housekeeping Event
\* that this flush created is not among them: it stays in the buffer.
C3_RowsAreTheBufferedEvents ==
    FlushedOk =>
        /\ Len(NewRows) = Len(last.pre)
        /\ \A k \in 1..Len(NewRows) :
              NewRows[k].id = last.pre[k].id /\ NewRows[k].id # events[1].id
        /\ RowsOf(events[1].id) = {}
        /\ events[1].state = Housekeeping

C3_Witness ==
    /\ FlushedOk
    /\ Len(last.pre) = 2
    /\ last.pre[1].state = "Run #0"
    /\ last.pre[2].state = "Run #1"
    /\ Len(NewRows) = 2

\* C4: a flush that returned commits one row for every Event that was in the
\* buffer when it was called, in buffer order, each row ending at the start
\* of the following Event; the row of the last of them ends at the start of
\* the housekeeping Event, read from the clock when flush began.
C4_RowsEndAtNextStart ==
    FlushedOk =>
        LET n == Len(last.pre)
            next(i) == IF i < n THEN last.pre[i+1].start ELSE events[1].start
        IN  /\ Len(NewRows) = n
            /\ \A i \in 1..n :
                /\ NewRows[i].id = last.pre[i].id
                /\ NewRows[i].state = last.pre[i].state
                /\ NewRows[i].started = strftime(WallClock(created, offset, last.pre[i].start))
                /\ NewRows[i].ended = strftime(WallClock(created, offset, next(i)))
            /\ events[1].start >= last.preClock
            /\ events[1].start <= events[2].start

C4_Witness ==
    /\ FlushedOk
    /\ Len(last.pre) = 3
    /\ last.pre[1].start < last.pre[2].start
    /\ last.pre[2].start < last.pre[3].start
    /\ last.pre[3].start < events[1].start

\* C5: if a store write or the commit fails during flush, no row of that
\* flush is committed and the buffer is what it was before the call.
C5_FailedFlushLeavesBuffer ==
    (last.op = "flush" /\ ~last.ok) =>
        /\ Len(db.rows) = last.preRows
        /\ events = last.pre

\* C6: after any flush, either a row for every Event it set out to persist
\* has been committed, or the committed rows are those of before the call;
\* and whenever a handler commits rows, they are the rows of the Events in
\* the buffer at its call, none left over from a handler that raised.
C6_FlushAtomic ==
    /\ last.op = "flush" =>
          \/ Len(db.rows) = last.preRows
          \/ last.ok /\ Len(NewRows) = Len(last.pre)
    /\ Len(db.rows) # last.preRows =>
          /\ Len(NewRows) = Len(last.pre)
          /\ \A k \in 1..Len(NewRows) : NewRows[k].id = last.pre[k].id

\* a flush that raised part-way, called while rows of an earlier flush that
\* raised were still pending in the transaction
C6_Witness ==
    /\ last.op = "flush"
    /\ ~last.ok
    /\ last.prePending > 0
    /\ Len(db.pending) > last.prePending

C8_CallerEventsOnce ==
    (phase = "closed" /\ ~last.failed) =>
        \A id \in callerIds : Cardinality(RowsOf(id)) = 1

\* an append, a flush, then __exit__: the caller's Event is committed by the
\* flush, the housekeeping and the resumed Event by __exit__
C8_Witness ==
    /\ phase = "closed"
    /\ ~last.failed
    /\ Cardinality(callerIds) = 1
    /\ Len(last.pre) = 2
    /\ Len(db.rows) = 3
    /\ db.conn = "closed"

\* C9 as stated: a flush that returned, called right after a flush that
\* returned, commits exactly one more row, a housekeeping row.
C9_SecondFlushOneRow ==
    (FlushedOk /\ last.afterFlush) =>
        /\ Len(NewRows) = 1
        /\ NewRows[1].state = Housekeeping

\* C9 as amended: a flush that returned, called right after a flush that
\* returned on a buffer that was not empty, commits exactly two more rows:
\* the housekeeping Event of the first flush, then the Event the first flush
\* re-appended.
C9_SecondFlushTwoRows ==
    (FlushedOk /\ last.afterFlush) =>
        /\ Len(NewRows) = 2
        /\ NewRows[1].state = Housekeeping
        /\ NewRows[1].id = last.pre[1].id
        /\ NewRows[2].id = last.pre[2].id
        /\ NewRows[2].state = events[2].state

C9_Witness ==
    /\ FlushedOk
    /\ last.afterFlush
    /\ Len(db.rows) = 3

\* C10: flush on an empty buffer makes no store call, raises nothing and
\* leaves the buffer empty.
C10_EmptyFlushNoOp ==
    (last.op = "flush" /\ last.pre = <<>>) =>
        /\ last.ok
        /\ last.calls = 0
        /\ events = <<>>
        /\ Len(db.rows) = last.preRows
        /\ Len(db.pending) = last.prePending
        /\ db.tx = "idle"

C10_Witness ==
    /\ last.op = "flush"
    /\ last.pre = <<>>
    /\ last.ok

\* the places of the step named what in the log of the last flush or __exit__
Steps_(what) == {i \in 1..Len(db.log) : db.log[i] = what}

\* C11: an __exit__ that returned has, in this order, committed the Events
\* that remained in the buffer, marked the profile row ended and closed the
\* connection: no INSERT comes after the UPDATE, and when nothing was ever
\* appended no event row is written at all.
C11_ExitOrder ==
    phase = "closed" =>
        /\ db.ended
        /\ db.conn = "closed"
        /\ Len(NewRows) = Len(last.pre)
        /\ \A k \in 1..Len(NewRows) : NewRows[k].id = last.pre[k].id
        /\ Cardinality(Steps_("update")) = 1
        /\ Steps_("close") = {Len(db.log)}
        /\ \A u \in Steps_("update") :
            /\ \A i \in Steps_("insert") : \E c \in Steps_("commit") : i < c /\ c < u
            /\ \E c \in Steps_("commit") : u < c /\ c < Len(db.log)
        /\ callerIds = {} => (db.rows = <<>> /\ Steps_("insert") = {})

C11_Witness ==
    /\ phase = "closed"
    /\ Len(last.pre) = 2
    /\ Len(db.rows) = 3
    /\ db.ended

\* C11, the case of no append at all
C11_WitnessNoAppend ==
    /\ phase = "closed"
    /\ callerIds = {}
    /\ db.ended

\* C14: the store calls of a flush that returned lie between the reading of
\* the clock that starts the housekeeping Event and the reading that starts
\* the resumed Event; every Event of a caller's state that the flush wrote
\* started, and its row ends, no later than the housekeeping Event starts.
C14_FlushIoInsideHousekeeping ==
    FlushedOk =>
        LET n == Len(last.pre)
            L == db.log
        IN  /\ L[1] = "housekeeping"
            /\ L[Len(L)] = "resume"
            /\ \A i \in 2..(Len(L) - 1) : L[i] \in {"cursor", "insert", "commit"}
            /\ Cardinality(Steps_("insert")) = n
            /\ Cardinality(Steps_("commit")) = 1
            /\ events[1].state = Housekeeping
            /\ events[1].start >= last.preClock
            /\ events[2].start >= events[1].start
            /\ clock = events[2].start
            /\ \A i \in 1..n : last.pre[i].start <= events[1].start
            /\ NewRows[n].ended = strftime(WallClock(created, offset, events[1].start))

C14_Witness ==
    /\ FlushedOk
    /\ last.pre[Len(last.pre)].start < events[1].start
    /\ events[1].start < events[2].start
    /\ last.pre[Len(last.pre)].state # Housekeeping

\* C12: a call of append makes no store call and changes nothing but the
\* buffer: the store, the profile id and the created/offset pair are as
\* before, the buffer is one Event longer, and the state, comment, records
\* and start of the Events already in it are as before.
C12_AppendFrame ==
    [][ last'.op = "append" =>
          /\ db' = db
          /\ pid' = pid
          /\ created' = created
          /\ offset' = offset
          /\ Len(events') = Len(events) + 1
          /\ \A i \in 1..Len(events) :
                /\ events'[i].id = events[i].id
                /\ events'[i].state = events[i].state
                /\ events'[i].comment = events[i].comment
                /\ events'[i].records = events[i].records
                /\ events'[i].start = events[i].start ]_vars

\* an append on a buffer that holds Events, with rows committed and the
\* clock advanced
C12_Witness ==
    /\ last.op = "append"
    /\ Len(last.pre) = 2
    /\ Len(events) = 3
    /\ Len(db.rows) = 1
    /\ events[3].start > events[2].start

\* C13: when the connection cannot be opened at construction, the
\* constructor raises, no Profiler is returned and no profile row exists.
C13_NoConnectionNoProfile ==
    db.conn = "unopened" =>
        /\ phase = "no_profiler"
        /\ ~db.profile
        /\ pid = None
        /\ db.calls = 0
        /\ db.rows = <<>>

C13_Witness ==
    /\ db.conn = "unopened"
    /\ last.op = "init"
    /\ ~last.ok

\* C15: the end of an Event is unset as long as the Event is the last of the
\* buffer, is at least its start once set, and once set is never given
\* another value.
C15_EndSetOnce ==
    [][ \A i \in 1..Len(events') :
          /\ (i = Len(events') => events'[i].end = None)
          /\ (events'[i].end # None => events'[i].end >= events'[i].start)
          /\ \A j \in 1..Len(events) :
                (events[j].id = events'[i].id /\ events[j].end # None)
                    => events'[i].end = events[j].end ]_vars

\* C16: when a flush has raised on a store write, a later flush that returns
\* has every Event the caller appended before the failure committed in
\* exactly one row, and commits no row of a housekeeping Event left over
\* from a flush that raised.
C16_RetryCommitsOnce ==
    (FlushedOk /\ last.retry # {}) =>
        /\ \A id \in last.retry : Cardinality(RowsOf(id)) = 1
        /\ \A h \in last.strays : RowsOf(h) = {}

\* the order of two timestamps as the rows hold them: text of the form
\* year-day-month time, compared field by field from the left
TextLeq(a, b) ==
    \/ a = b
    \/ \E k \in 1..Len(a) : a[k] < b[k] /\ \A j \in 1..(k - 1) : a[j] = b[j]

\* C17: the committed rows are in chronological order: every row has
\* started <= ended, and a row committed before another has started <= the
\* other's started.
C17_RowsChronological ==
    \A k \in 1..Len(db.rows) :
        /\ TextLeq(db.rows[k].started, db.rows[k].ended)
        /\ \A j \in 1..(k - 1) : TextLeq(db.rows[j].started, db.rows[k].started)

\* C18: as long as no handler has raised, the committed rows form one chain:
\* in commit order, each row ends where the next row starts, across the
\* boundaries of the flushes too.
C18_RowsChain ==
    ~last.failed =>
        \A k \in 1..(Len(db.rows) - 1) : db.rows[k].ended = db.rows[k+1].started

\* rows of two flushes, with the clock advanced between the Events
C18_Witness ==
    /\ ~last.failed
    /\ FlushedOk
    /\ last.afterFlush
    /\ Len(db.rows) = 3
    /\ db.rows[1].started # db.rows[2].started
    /\ db.rows[2].started # db.rows[3].started

\* the sum of the records of rows k..Len(rows); None counts for nothing
RECURSIVE SumRecords(_, _)
SumRecords(rows, k) ==
    IF k > Len(rows) THEN 0 ELSE Count(rows[k].records) + SumRecords(rows, k + 1)

\* C19: after appends, flushes that returned and an __exit__ that returned,
\* the records of the committed rows add up to the records the caller
\* passed to append.
C19_RecordsNotInflated ==
    (phase = "closed" /\ ~last.failed) => SumRecords(db.rows, 1) = last.given

=============================================================================
